---- MODULE Spec2Model ----
(***************************************************************************)
(* A model of bseecs (src/beecs.h): the paged sparse set, the component    *)
(* registry with its required / sustained masks, the entity allocator and  *)
(* the ECS facade.                                                         *)
(*                                                                         *)
(* BSEECS_ASSERT prints and calls ::abort().  A failed assertion is        *)
(* modelled by last.result = "fatal": the state is left as the code left   *)
(* it at the failing assertion and no operation is enabled afterwards.     *)
(* A call that runs into undefined behaviour ends with last.result =       *)
(* "crash" (the process dies) or "undefined" (it goes on with a value that *)
(* belongs to no record); the model follows neither any further.           *)
(***************************************************************************)
EXTENDS Integers, Sequences, FiniteSets, TLC

\* ---------------------------------------------------------------- constants
\* Program constants, scaled down so that the capacity checks and the paging
\* of the sparse array are exercised (source values in parentheses).
\* bseecs::MAX_ENTITIES (1'000'000)
MAX_ENTITIES == 2
\* bseecs::MAX_COMPONENTS (64)
MAX_COMPONENTS == 2
\* SparseSet::SPARSE_MAX_SIZE (1'000): entries per sparse page
SPARSE_MAX_SIZE == 2
\* NULL_ENTITY and tombstone are the largest value of their unsigned type;
\* here the largest value of a (scaled) 8-bit word.
NULL_ENTITY == 255
tombstone == 255

\* ------------------------------------------------------------------- bounds
\* DeleteEntity is not taken once the free list holds MaxFree ids.
MaxFree == 3
\* Component values are 1..MaxVal.
MaxVal == 2
\* Ids handed to a sparse set used directly are 0..MaxPoolId.
MaxPoolId == 3
\* HasAll is called with packs of at most MaxPack types.
MaxPack == 2

\* The component types of the program (template arguments).
Types == {"Chassis", "Engine", "Wheel"}
Values == 1..MaxVal
Names == {"", "player"}
\* The types registered, added and removed through the facade.
FacadeTypes == {"Chassis", "Engine"}
\* The type attached to entities that are deleted and recycled.
EntityTypes == {"Chassis"}
\* The type whose sparse set is used directly.
PoolTypes == {"Chassis"}
PoolIds == 0..MaxPoolId
\* The template packs HasAll is called with, in the order they are written.
TypePacks == UNION {[1..n -> Types] : n \in 0..MaxPack}
\* What the callback of a ForEach does: nothing that adds or removes, or
\* removals of the Main component of entities already reached.
Callbacks == {"none", "remove"}
\* Ids the allocator can issue.
EntityIds == 0..(MAX_ENTITIES - 1)
\* Ids a caller can pass: issued ones, one never issued, and the sentinel.
AnyIds == 0..MAX_ENTITIES \cup {NULL_ENTITY}

VARIABLES
    m_availableEntities,    \* std::vector<EntityID>, back() is the last element
    m_entityNames,          \* std::unordered_map<EntityID, std::string>
    m_componentPools,       \* std::vector<unique_ptr<ISparseSet>>, index = bit position
    m_componentBitPosition, \* std::unordered_map<TypeName, ComponentInfo>
    m_maxEntityID,          \* EntityID
    live,                   \* per id, the number of entities created with it and not yet deleted
    last,                   \* the last call made on the ECS and how it ended
    walk                    \* the ForEach call in progress: its loop index and what it visited

vars == <<m_availableEntities, m_entityNames, m_componentPools,
          m_componentBitPosition, m_maxEntityID, live, last, walk>>

\* ---------------------------------------------------------------- SparseSet
\* SparseSet<T>(): empty pages, empty dense list.
EmptyPool == [m_sparsePages |-> <<>>, m_dense |-> <<>>, m_denseToEntity |-> <<>>]

\* std::vector::resize(n, fill) for n > size
Resize(s, n, fill) == s \o [i \in 1..(n - Len(s)) |-> fill]

GetDenseIndex(pool, id) ==
    LET page == id \div SPARSE_MAX_SIZE
        sparseIndex == id % SPARSE_MAX_SIZE
    IN  IF page < Len(pool.m_sparsePages)
        THEN LET sparse == pool.m_sparsePages[page + 1]
             IN  IF sparseIndex < Len(sparse) THEN sparse[sparseIndex + 1]
                 ELSE tombstone
        ELSE tombstone

SetDenseIndex(pool, id, index) ==
    LET page == id \div SPARSE_MAX_SIZE
        sparseIndex == id % SPARSE_MAX_SIZE
        pages == IF page >= Len(pool.m_sparsePages)
                 THEN Resize(pool.m_sparsePages, page + 1, <<>>)
                 ELSE pool.m_sparsePages
        sparse == IF sparseIndex >= Len(pages[page + 1])
                  THEN Resize(pages[page + 1], sparseIndex + 1, tombstone)
                  ELSE pages[page + 1]
    IN  [pool EXCEPT !.m_sparsePages =
            [pages EXCEPT ![page + 1] = [sparse EXCEPT ![sparseIndex + 1] = index]]]

\* SparseSet::Set recording m_dense.size() - 1 as the new entry's index.
Set_OffByOne(pool, id, obj) ==
    LET index == GetDenseIndex(pool, id)
    IN  IF index # tombstone
        THEN [pool EXCEPT !.m_dense[index + 1] = obj,
                          !.m_denseToEntity[index + 1] = id]
        ELSE LET p == SetDenseIndex(pool, id,
                          IF pool.m_dense = <<>> THEN 0 ELSE Len(pool.m_dense) - 1)
             IN  [p EXCEPT !.m_dense = Append(pool.m_dense, obj),
                           !.m_denseToEntity = Append(pool.m_denseToEntity, id)]

\* SparseSet::Set overwriting the first dense slot instead of the entity's own.
Set_WrongSlot(pool, id, obj) ==
    LET index == GetDenseIndex(pool, id)
    IN  IF index # tombstone
        THEN [pool EXCEPT !.m_dense[1] = obj,
                          !.m_denseToEntity[1] = id]
        ELSE LET p == SetDenseIndex(pool, id, Len(pool.m_dense))
             IN  [p EXCEPT !.m_dense = Append(pool.m_dense, obj),
                           !.m_denseToEntity = Append(pool.m_denseToEntity, id)]

\* SparseSet::Set
Set(pool, id, obj) ==
    LET index == GetDenseIndex(pool, id)
    IN  IF index # tombstone
        THEN [pool EXCEPT !.m_dense[index + 1] = obj,
                          !.m_denseToEntity[index + 1] = id]
        ELSE LET p == SetDenseIndex(pool, id, Len(pool.m_dense))
             IN  [p EXCEPT !.m_dense = Append(pool.m_dense, obj),
                           !.m_denseToEntity = Append(pool.m_denseToEntity, id)]

\* SparseSet::Get: TRUE iff the pointer returned is not nullptr
PoolHas(pool, id) == GetDenseIndex(pool, id) # tombstone

\* SparseSet::Get: the value pointed at (when PoolHas)
PoolGet(pool, id) == pool.m_dense[GetDenseIndex(pool, id) + 1]

\* SparseSet::GetEntity
GetEntity(pool, compId) == pool.m_denseToEntity[compId + 1]

\* The assertion of SparseSet::Delete fails.
DeleteFails(pool, id) ==
    ~(GetDenseIndex(pool, id) # tombstone /\ pool.m_dense # <<>>)

\* std::swap(v.back(), v[i]); v.pop_back()
SwapPop(v, i) ==
    SubSeq([v EXCEPT ![i + 1] = v[Len(v)], ![Len(v)] = v[i + 1]], 1, Len(v) - 1)

\* SparseSet::Delete without the re-mapping of the moved last element.
Delete_NoRemap(pool, id) ==
    LET deletedIndex == GetDenseIndex(pool, id)
        p2 == SetDenseIndex(pool, id, tombstone)
    IN  [p2 EXCEPT !.m_dense = SwapPop(pool.m_dense, deletedIndex),
                   !.m_denseToEntity = SwapPop(pool.m_denseToEntity, deletedIndex)]

\* SparseSet::Delete popping the last value without swapping it in.
Delete_NoSwap(pool, id) ==
    LET deletedIndex == GetDenseIndex(pool, id)
        p1 == SetDenseIndex(pool, pool.m_denseToEntity[Len(pool.m_denseToEntity)],
                            deletedIndex)
        p2 == SetDenseIndex(p1, id, tombstone)
    IN  [p2 EXCEPT !.m_dense = SubSeq(pool.m_dense, 1, Len(pool.m_dense) - 1),
                   !.m_denseToEntity = SwapPop(pool.m_denseToEntity, deletedIndex)]

\* SparseSet::Delete emptying the whole set
Delete_All(pool, id) == EmptyPool

\* SparseSet::Delete, past its assertion
Delete(pool, id) ==
    LET deletedIndex == GetDenseIndex(pool, id)
        p1 == SetDenseIndex(pool, pool.m_denseToEntity[Len(pool.m_denseToEntity)],
                            deletedIndex)
        p2 == SetDenseIndex(p1, id, tombstone)
    IN  [p2 EXCEPT !.m_dense = SwapPop(pool.m_dense, deletedIndex),
                   !.m_denseToEntity = SwapPop(pool.m_denseToEntity, deletedIndex)]

\* SparseSet::Clear
Clear(pool) == EmptyPool

\* ----------------------------------------------------------------- registry
Registered == DOMAIN m_componentBitPosition

\* ECS::GetComponentBitPosition
GetComponentBitPosition(reg, T) ==
    IF T \in DOMAIN reg THEN reg[T].m_bitPosition ELSE tombstone

\* ECS::GetMask: the assertion of SetComponentBit fails for some type
GetMaskFails(reg, Components) ==
    \E c \in Components : GetComponentBitPosition(reg, c) = tombstone

\* ECS::GetMask: the mask, as the set of bit positions set
GetMask(reg, Components) ==
    {GetComponentBitPosition(reg, c) : c \in Components}

\* The types whose bits are set in a mask
TypesOf(reg, mask) == {t \in DOMAIN reg : reg[t].m_bitPosition \in mask}

\* (a ^ b).none() accepting a declared list that is a subset of the mask
MaskDiffNone_Subset(incoming, registered) == incoming \subseteq registered

\* ComponentMask resultDiff = incoming ^ registered; resultDiff.none()
MaskDiffNone(incoming, registered) ==
    (incoming \ registered) \cup (registered \ incoming) = {}

\* BroadcastRequirements that records nothing
BroadcastRequirements_None(reg, T, Components) == reg

\* BroadcastRequirements telling every registered type, required or not
BroadcastRequirements_All(reg, T, Components) ==
    [t \in DOMAIN reg |->
        IF t # T
        THEN [reg[t] EXCEPT !.m_isRequiredInComponents =
                                @ \cup {reg[T].m_bitPosition}]
        ELSE reg[t]]

\* ECS::BroadcastRequirements / SetRequirements
BroadcastRequirements(reg, T, Components) ==
    [t \in DOMAIN reg |->
        IF t \in Components
        THEN [reg[t] EXCEPT !.m_isRequiredInComponents =
                                @ \cup {reg[T].m_bitPosition}]
        ELSE reg[t]]

\* RegisterComponent accepting any list of required types
RegisterFails_AnyRequired(reg, pools, T, Components) ==
    \/ T \in DOMAIN reg
    \/ ~(Len(pools) < MAX_COMPONENTS)

\* RegisterComponent without the check of MAX_COMPONENTS
RegisterFails_NoCapacity(reg, pools, T, Components) ==
    \/ T \in DOMAIN reg
    \/ GetMaskFails(reg, Components)

\* The assertions of ECS::RegisterComponent (and of its GetMask) fail.
RegisterFails(reg, pools, T, Components) ==
    \/ T \in DOMAIN reg
    \/ ~(Len(pools) < MAX_COMPONENTS)
    \/ GetMaskFails(reg, Components)

\* ECS::RegisterComponent, past its assertions: the new registry
RegisterReg(reg, pools, T, Components) ==
    BroadcastRequirements(
        reg @@ (T :> [m_bitPosition |-> Len(pools),
                      m_requiredComponents |-> GetMask(reg, Components),
                      m_isRequiredInComponents |-> {}]),
        T, Components)

\* ECS::RegisterComponent, past its assertions: the new pools
RegisterPools(pools, T) == Append(pools, EmptyPool)

\* ------------------------------------------------------------------- facade
\* BSEECS_ASSERT_VALID_ENTITY letting the high-water mark itself through
ValidEntity_AtMark(id) == id # NULL_ENTITY /\ id <= m_maxEntityID /\ id >= 0

\* BSEECS_ASSERT_VALID_ENTITY
ValidEntity(id) == id # NULL_ENTITY /\ id < m_maxEntityID /\ id >= 0

\* The pool of a registered type
PoolOf(reg, pools, T) == pools[reg[T].m_bitPosition + 1]

\* ECS::Has, for a registered type, in a given registry and pools
HasIn(reg, pools, T, id) ==
    T \in DOMAIN reg /\ PoolHas(PoolOf(reg, pools, T), id)

\* ECS::Get, for a type the entity holds, in a given registry and pools
GetIn(reg, pools, T, id) == PoolGet(PoolOf(reg, pools, T), id)

\* ECS::Has and ECS::Get before a call ...
Has(T, id) == HasIn(m_componentBitPosition, m_componentPools, T, id)
Get(T, id) == GetIn(m_componentBitPosition, m_componentPools, T, id)
\* ... and after it
HasNext(T, id) == HasIn(m_componentBitPosition', m_componentPools', T, id)
GetNext(T, id) == GetIn(m_componentBitPosition', m_componentPools', T, id)

\* HasAllRequired accepting every entity
HasAllRequired_Always(reg, pools, Ts, id) == TRUE

\* ECS::HasAllRequired / HasRequired: no assertion fails
HasAllRequired(reg, pools, Ts, id) ==
    \A t \in Ts : PoolHas(PoolOf(reg, pools, t), id)

\* HasRemovedAll accepting every entity
HasRemovedAll_Always(reg, pools, Ts, id) == TRUE

\* ECS::HasRemovedAll / HasRemoved: no assertion fails
HasRemovedAll(reg, pools, Ts, id) ==
    \A t \in Ts : ~PoolHas(PoolOf(reg, pools, t), id)

Aborted == last.result = "fatal"

\* No ForEach is running.
Idle == [status |-> "idle"]

\* A call can be made: the process has not aborted, no call has run into
\* undefined behaviour, and no ForEach is in its loop (the engine is
\* single-threaded: only the callback runs during a ForEach).
Ready == ~Aborted /\ last.result \notin {"crash", "undefined"} /\ walk.status = "idle"

Init ==
    /\ m_availableEntities = <<>>
    /\ m_entityNames = <<>>
    /\ m_componentPools = <<>>
    /\ m_componentBitPosition = <<>>
    /\ m_maxEntityID = 0
    /\ live = [e \in EntityIds |-> 0]
    /\ last = [op |-> "ECS", result |-> "ok"]
    /\ walk = Idle

\* ECS::GetComponentPool<T>(false): its assertion fails
GetComponentPoolFails(reg, T) == GetComponentBitPosition(reg, T) = tombstone

\* ---------------------------------------------------------------- allocator
\* The entity limit checked one id too late.
BelowEntityLimit_OffByOne(maxId) == maxId <= MAX_ENTITIES

\* BSEECS_ASSERT(m_maxEntityID < MAX_ENTITIES, "Entity limit exceeded")
BelowEntityLimit(maxId) == maxId < MAX_ENTITIES

\* ECS::CreateEntity.  Its last assertion, id != tombstone, cannot fail: an id
\* is below MAX_ENTITIES.
CreateEntity(name) ==
    /\ Ready
    /\ UNCHANGED walk
    /\ IF Len(m_availableEntities) = 0
       THEN IF ~BelowEntityLimit(m_maxEntityID)
            THEN /\ last' = [op |-> "CreateEntity", name |-> name, result |-> "fatal"]
                 /\ UNCHANGED <<m_availableEntities, m_entityNames, m_maxEntityID, live>>
            ELSE LET id == m_maxEntityID
                 IN  /\ m_maxEntityID' = m_maxEntityID + 1
                     /\ m_entityNames' = IF name # "" THEN (id :> name) @@ m_entityNames
                                         ELSE m_entityNames
                     /\ live' = [live EXCEPT ![id] = @ + 1]
                     /\ last' = [op |-> "CreateEntity", name |-> name, result |-> "ok",
                                 ret |-> id, recycled |-> FALSE]
                     /\ UNCHANGED m_availableEntities
       ELSE LET id == m_availableEntities[Len(m_availableEntities)]
            IN  /\ m_availableEntities' =
                       SubSeq(m_availableEntities, 1, Len(m_availableEntities) - 1)
                /\ m_entityNames' = IF name # "" THEN (id :> name) @@ m_entityNames
                                    ELSE m_entityNames
                /\ live' = [live EXCEPT ![id] = @ + 1]
                /\ last' = [op |-> "CreateEntity", name |-> name, result |-> "ok",
                            ret |-> id, recycled |-> TRUE]
                /\ UNCHANGED m_maxEntityID
    /\ UNCHANGED <<m_componentPools, m_componentBitPosition>>

\* ECS::GetEntityName, past its assertion
GetEntityName(id) ==
    IF id \in DOMAIN m_entityNames THEN m_entityNames[id] ELSE "Entity"

\* ECS::DeleteEntity that also deletes the entity's components
DeleteEntityPools_Purge(pools, id) ==
    [i \in 1..Len(pools) |-> IF PoolHas(pools[i], id) THEN Delete(pools[i], id)
                             ELSE pools[i]]

\* ECS::DeleteEntity: the component pools it leaves
DeleteEntityPools(pools, id) == pools

\* ECS::DeleteEntity.  The caller's variable is set to NULL_ENTITY; a copy of
\* the id held elsewhere is not, so id ranges over every value.
DeleteEntity(id) ==
    /\ Ready
    /\ UNCHANGED walk
    /\ Len(m_availableEntities) < MaxFree
    /\ IF ~ValidEntity(id)
       THEN /\ last' = [op |-> "DeleteEntity", id |-> id, result |-> "fatal"]
            /\ UNCHANGED <<m_availableEntities, m_entityNames, m_componentPools, live>>
       ELSE /\ m_entityNames' = [e \in DOMAIN m_entityNames \ {id} |-> m_entityNames[e]]
            /\ m_availableEntities' = Append(m_availableEntities, id)
            /\ m_componentPools' = DeleteEntityPools(m_componentPools, id)
            /\ live' = [live EXCEPT ![id] = IF @ > 0 THEN @ - 1 ELSE 0]
            /\ last' = [op |-> "DeleteEntity", id |-> id, result |-> "ok",
                        name |-> GetEntityName(id)]
    /\ UNCHANGED <<m_componentBitPosition, m_maxEntityID>>

\* ------------------------------------------------------------- registration
\* ECS::RegisterComponent<T, Components...>
RegisterComponent(T, Components) ==
    /\ Ready
    /\ UNCHANGED walk
    /\ IF RegisterFails(m_componentBitPosition, m_componentPools, T, Components)
       THEN /\ last' = [op |-> "RegisterComponent", T |-> T, decl |-> Components,
                        result |-> "fatal"]
            /\ UNCHANGED <<m_componentBitPosition, m_componentPools>>
       ELSE /\ m_componentBitPosition' =
                   RegisterReg(m_componentBitPosition, m_componentPools, T, Components)
            /\ m_componentPools' = RegisterPools(m_componentPools, T)
            /\ last' = [op |-> "RegisterComponent", T |-> T, decl |-> Components,
                        result |-> "ok"]
    /\ UNCHANGED <<m_availableEntities, m_entityNames, m_maxEntityID, live>>

\* ---------------------------------------------------------------- Add/Remove
\* ECS::Add<T, RequiredComponents...>(id, component): how the call ends and
\* the registry and pools it leaves.
AddOutcome(reg, pools, T, Required, id, component) ==
    IF ~ValidEntity(id)
    THEN [result |-> "fatal", reg |-> reg, pools |-> pools]
    ELSE IF T \notin DOMAIN reg /\ RegisterFails(reg, pools, T, {})
    THEN [result |-> "fatal", reg |-> reg, pools |-> pools]
    ELSE LET auto == T \notin DOMAIN reg
             reg1 == IF auto THEN RegisterReg(reg, pools, T, {}) ELSE reg
             pools1 == IF auto THEN RegisterPools(pools, T) ELSE pools
             pool == PoolOf(reg1, pools1, T)
         IN  IF \/ PoolHas(pool, id)
                \/ GetMaskFails(reg1, Required)
                \/ ~MaskDiffNone(GetMask(reg1, Required), reg1[T].m_requiredComponents)
                \/ ~HasAllRequired(reg1, pools1, Required, id)
             THEN [result |-> "fatal", reg |-> reg1, pools |-> pools1]
             ELSE [result |-> "ok", reg |-> reg1,
                   pools |-> [pools1 EXCEPT ![reg1[T].m_bitPosition + 1] =
                                                Set(pool, id, component)]]

Add(T, Required, id, component) ==
    /\ Ready
    /\ UNCHANGED walk
    /\ LET out == AddOutcome(m_componentBitPosition, m_componentPools,
                             T, Required, id, component)
       IN  /\ m_componentBitPosition' = out.reg
           /\ m_componentPools' = out.pools
           /\ last' = IF out.result = "ok"
                       THEN [op |-> "Add", T |-> T, decl |-> Required, id |-> id,
                             value |-> component, result |-> "ok"]
                       ELSE [op |-> "Add", T |-> T, decl |-> Required, id |-> id,
                             result |-> "fatal"]
    /\ UNCHANGED <<m_availableEntities, m_entityNames, m_maxEntityID, live>>

\* ECS::Remove<T, SustainedComponents...>(id)
RemoveOutcome(reg, pools, T, Sustained, id) ==
    IF \/ ~ValidEntity(id)
       \/ GetComponentPoolFails(reg, T)
       \/ ~PoolHas(PoolOf(reg, pools, T), id)
       \/ GetMaskFails(reg, Sustained)
       \/ ~MaskDiffNone(GetMask(reg, Sustained), reg[T].m_isRequiredInComponents)
       \/ ~HasRemovedAll(reg, pools, Sustained, id)
    THEN [result |-> "fatal", pools |-> pools]
    ELSE [result |-> "ok",
          pools |-> [pools EXCEPT ![reg[T].m_bitPosition + 1] =
                                      Delete(PoolOf(reg, pools, T), id)]]

Remove(T, Sustained, id) ==
    /\ Ready
    /\ UNCHANGED walk
    /\ LET out == RemoveOutcome(m_componentBitPosition, m_componentPools,
                                T, Sustained, id)
       IN  /\ m_componentPools' = out.pools
           /\ last' = IF out.result = "ok"
                       THEN [op |-> "Remove", T |-> T, decl |-> Sustained, id |-> id,
                             result |-> "ok",
                             index |-> GetDenseIndex(
                                 PoolOf(m_componentBitPosition, m_componentPools, T), id)]
                       ELSE [op |-> "Remove", T |-> T, decl |-> Sustained, id |-> id,
                             result |-> "fatal"]
    /\ UNCHANGED <<m_availableEntities, m_entityNames, m_componentBitPosition,
                   m_maxEntityID, live>>

\* ------------------------------------------------- direct use of a SparseSet
\* ecs.GetComponentPool<T>().Set(id, obj)
PoolSet(T, id, obj) ==
    /\ Ready
    /\ UNCHANGED walk
    /\ IF GetComponentPoolFails(m_componentBitPosition, T)
       THEN /\ last' = [op |-> "Set", T |-> T, id |-> id, value |-> obj,
                        result |-> "fatal"]
            /\ UNCHANGED m_componentPools
       ELSE /\ m_componentPools' =
                   [m_componentPools EXCEPT ![m_componentBitPosition[T].m_bitPosition + 1]
                        = Set(@, id, obj)]
            /\ last' = [op |-> "Set", T |-> T, id |-> id, value |-> obj,
                        result |-> "ok",
                        had |-> Has(T, id)]
    /\ UNCHANGED <<m_availableEntities, m_entityNames, m_componentBitPosition,
                   m_maxEntityID, live>>

\* ecs.GetComponentPool<T>().Delete(id)
PoolDelete(T, id) ==
    /\ Ready
    /\ UNCHANGED walk
    /\ IF \/ GetComponentPoolFails(m_componentBitPosition, T)
          \/ DeleteFails(PoolOf(m_componentBitPosition, m_componentPools, T), id)
       THEN /\ last' = [op |-> "Delete", T |-> T, id |-> id, result |-> "fatal"]
            /\ UNCHANGED m_componentPools
       ELSE /\ m_componentPools' =
                   [m_componentPools EXCEPT ![m_componentBitPosition[T].m_bitPosition + 1]
                        = Delete(@, id)]
            /\ last' = [op |-> "Delete", T |-> T, id |-> id, result |-> "ok"]
    /\ UNCHANGED <<m_availableEntities, m_entityNames, m_componentBitPosition,
                   m_maxEntityID, live>>

\* ecs.GetComponentPool<T>().Clear()
PoolClear(T) ==
    /\ Ready
    /\ UNCHANGED walk
    /\ IF GetComponentPoolFails(m_componentBitPosition, T)
       THEN /\ last' = [op |-> "Clear", T |-> T, result |-> "fatal"]
            /\ UNCHANGED m_componentPools
       ELSE /\ m_componentPools' =
                   [m_componentPools EXCEPT ![m_componentBitPosition[T].m_bitPosition + 1]
                        = Clear(@)]
            /\ last' = [op |-> "Clear", T |-> T, result |-> "ok"]
    /\ UNCHANGED <<m_availableEntities, m_entityNames, m_componentBitPosition,
                   m_maxEntityID, live>>

\* The pools, and the masks of a registered type as sets of types
Pools == {m_componentPools[i] : i \in 1..Len(m_componentPools)}
AllIds == EntityIds \cup PoolIds
RequiredOf(T) == TypesOf(m_componentBitPosition, m_componentBitPosition[T].m_requiredComponents)
SustainedOf(T) ==
    TypesOf(m_componentBitPosition, m_componentBitPosition[T].m_isRequiredInComponents)

\* Some sequence of successful Remove<T, Ss...>(id) calls, for some choice of
\* T and of the declared list Ss at each call, leaves id without components.
RECURSIVE Strippable(_, _, _)
Strippable(reg, pools, id) ==
    \/ \A T \in DOMAIN reg : ~PoolHas(PoolOf(reg, pools, T), id)
    \/ \E T \in DOMAIN reg, Ss \in SUBSET DOMAIN reg :
           LET out == RemoveOutcome(reg, pools, T, Ss, id)
           IN  out.result = "ok" /\ Strippable(reg, out.pools, id)

\* The types T requires, directly or through others, following the required
\* masks for at most n steps.
RECURSIVE RequiredWithin(_, _, _)
RequiredWithin(reg, T, n) ==
    IF n = 0 THEN {}
    ELSE LET direct == TypesOf(reg, reg[T].m_requiredComponents)
         IN  direct \cup UNION {RequiredWithin(reg, R, n - 1) : R \in direct}

\* ------------------------------------------------------------ Has, Get, name
\* ECS::Has<T>(id): "fatal" when GetComponentPool asserts, else the answer.
\* The id is not validated.
HasOutcome(reg, pools, T, id) ==
    IF GetComponentPoolFails(reg, T) THEN "fatal"
    ELSE IF PoolHas(PoolOf(reg, pools, T), id) THEN "true" ELSE "false"

\* HasAll evaluating Has for every type of the pack, whatever the others say
HasAllOutcome_Eager(reg, pools, Ts, id, k) ==
    IF \E j \in k..Len(Ts) : HasOutcome(reg, pools, Ts[j], id) = "fatal" THEN "fatal"
    ELSE IF \A j \in k..Len(Ts) : HasOutcome(reg, pools, Ts[j], id) = "true" THEN "true"
    ELSE "false"

\* ECS::HasAll<Ts...>(id): (Has<Ts>(id) && ...) evaluates left to right and
\* stops at the first false; Ts[k..] is what is left of the pack.
RECURSIVE HasAllOutcome(_, _, _, _, _)
HasAllOutcome(reg, pools, Ts, id, k) ==
    IF k > Len(Ts) THEN "true"
    ELSE LET r == HasOutcome(reg, pools, Ts[k], id)
         IN  IF r # "true" THEN r ELSE HasAllOutcome(reg, pools, Ts, id, k + 1)

\* What every observer call leaves alone.
UNCHANGED_State ==
    UNCHANGED <<m_availableEntities, m_entityNames, m_componentPools,
                m_componentBitPosition, m_maxEntityID, live, walk>>

HasCall(T, id) ==
    /\ Ready
    /\ LET r == HasOutcome(m_componentBitPosition, m_componentPools, T, id)
       IN  last' = IF r = "fatal"
                   THEN [op |-> "Has", T |-> T, id |-> id, result |-> "fatal"]
                   ELSE [op |-> "Has", T |-> T, id |-> id, result |-> "ok",
                         ret |-> (r = "true")]
    /\ UNCHANGED_State

HasAllCall(Ts, id) ==
    /\ Ready
    /\ LET r == HasAllOutcome(m_componentBitPosition, m_componentPools, Ts, id, 1)
       IN  last' = IF r = "fatal"
                   THEN [op |-> "HasAll", Ts |-> Ts, id |-> id, result |-> "fatal"]
                   ELSE [op |-> "HasAll", Ts |-> Ts, id |-> id, result |-> "ok",
                         ret |-> (r = "true")]
    /\ UNCHANGED_State

\* The assertions of ECS::Get fail.
GetFails(reg, pools, T, id) ==
    \/ ~ValidEntity(id)
    \/ GetComponentPoolFails(reg, T)
    \/ ~PoolHas(PoolOf(reg, pools, T), id)

\* ECS::Get<T>(id)
GetCall(T, id) ==
    /\ Ready
    /\ last' = IF GetFails(m_componentBitPosition, m_componentPools, T, id)
               THEN [op |-> "Get", T |-> T, id |-> id, result |-> "fatal"]
               ELSE [op |-> "Get", T |-> T, id |-> id, result |-> "ok",
                     ret |-> Get(T, id)]
    /\ UNCHANGED_State

\* ECS::GetEntityName(id)
GetEntityNameCall(id) ==
    /\ Ready
    /\ last' = IF ~ValidEntity(id)
               THEN [op |-> "GetEntityName", id |-> id, result |-> "fatal"]
               ELSE [op |-> "GetEntityName", id |-> id, result |-> "ok",
                     ret |-> GetEntityName(id)]
    /\ UNCHANGED_State

\* SparseSet::GetRef: how a call can end.  There is no check of the index:
\* for an absent entity m_dense[tombstone] is read out of bounds, which is
\* undefined behaviour; the process crashes or the caller is handed a
\* reference to no record.
GetRefResults(pool, id) ==
    IF GetDenseIndex(pool, id) # tombstone THEN {"ok"} ELSE {"crash", "undefined"}

\* ecs.GetComponentPool<T>().GetRef(id)
GetRefCall(T, id) ==
    /\ Ready
    /\ IF GetComponentPoolFails(m_componentBitPosition, T)
       THEN last' = [op |-> "GetRef", T |-> T, id |-> id, result |-> "fatal"]
       ELSE \E r \in GetRefResults(PoolOf(m_componentBitPosition, m_componentPools, T), id) :
                last' = [op |-> "GetRef", T |-> T, id |-> id, result |-> r]
    /\ UNCHANGED_State

\* ------------------------------------------------------------------ ForEach
\* The dense array of T's pool with the owner of each slot, in slot order
\* (SparseSet::Data and GetEntity); empty for a type without a pool.
DenseOrder(reg, pools, T) ==
    IF T \in DOMAIN reg
    THEN LET pool == PoolOf(reg, pools, T)
         IN  [k \in 1..Len(pool.m_dense) |-> <<pool.m_denseToEntity[k], pool.m_dense[k]>>]
    ELSE <<>>

\* The entities that hold T
Holders(T) == {e \in EntityIds : Has(T, e)}

\* for (...; i < dense.size(); ...) stopping one element early
LoopContinues_OneShort(i, pool) == i < Len(pool.m_dense) - 1

\* for (size_t i = 0; i < dense.size(); i++): the loop condition, read on
\* every iteration from the pool's own vector
LoopContinues(i, pool) == i < Len(pool.m_dense)

\* i++ skipped after the callback removed the visited entity's component
NextIndex_StayOnRemoval(i, id, removed) == IF removed = id THEN i ELSE i + 1

\* for (...; i++): the index after a visit
NextIndex(i, id, removed) == i + 1

\* ECS::ForEach<Main, Siblings...>(func): GetComponentPool<Main>() and the
\* start of the loop.  cb tells what func does: "none" neither adds nor
\* removes, "remove" may remove the Main component of the visited entity or
\* of one visited before.
ForEachBegin(Main, Siblings, cb) ==
    /\ Ready
    /\ IF GetComponentPoolFails(m_componentBitPosition, Main)
       THEN /\ last' = [op |-> "ForEach", Main |-> Main, Siblings |-> Siblings,
                        result |-> "fatal"]
            /\ UNCHANGED walk
       ELSE /\ last' = [op |-> "ForEach", Main |-> Main, Siblings |-> Siblings,
                        result |-> "ok"]
            /\ walk' = [status |-> "running", Main |-> Main, Siblings |-> Siblings,
                        cb |-> cb, i |-> 0, start |-> Holders(Main),
                        visited |-> <<>>, moved |-> FALSE]
    /\ UNCHANGED <<m_availableEntities, m_entityNames, m_componentPools,
                   m_componentBitPosition, m_maxEntityID, live>>

\* How fetching the siblings of a visited entity can end:
\* GetComponentPool<Components>().GetRef(id)...
SiblingResults(reg, pools, Siblings, id) ==
    LET unregistered == {t \in Siblings : GetComponentPoolFails(reg, t)}
        results == UNION {GetRefResults(PoolOf(reg, pools, t), id) :
                              t \in Siblings \ unregistered}
        bad == results \ {"ok"}
    IN  IF unregistered # {} THEN {"fatal"} \cup bad
        ELSE IF bad # {} THEN bad
        ELSE {"ok"}

\* What func may remove during the visit of id: nothing (NULL_ENTITY), the
\* Main component of id, or that of an entity visited before.
Removable(id) ==
    IF walk.cb = "none" THEN {NULL_ENTITY}
    ELSE {NULL_ENTITY, id} \cup
         ({walk.visited[k][1] : k \in 1..Len(walk.visited)} \cap Holders(walk.Main))

\* One iteration of the loop of ECS::ForEach, or its end.
ForEachStep ==
    /\ walk.status = "running"
    /\ ~Aborted
    /\ last.result \notin {"crash", "undefined"}
    /\ LET pool == PoolOf(m_componentBitPosition, m_componentPools, walk.Main)
       IN  IF ~LoopContinues(walk.i, pool)
           THEN /\ walk' = [walk EXCEPT !.status = "done"]
                /\ last' = [op |-> "ForEachEnd", Main |-> walk.Main, result |-> "ok"]
                /\ UNCHANGED m_componentPools
           ELSE LET id == GetEntity(pool, walk.i)
                    value == pool.m_dense[walk.i + 1]
                IN  \E r \in SiblingResults(m_componentBitPosition, m_componentPools,
                                            walk.Siblings, id) :
                        IF r # "ok"
                        THEN /\ last' = [op |-> "Visit", Main |-> walk.Main, id |-> id,
                                         removed |-> NULL_ENTITY, result |-> r]
                             /\ UNCHANGED <<walk, m_componentPools>>
                        ELSE \E removed \in Removable(id) :
                                 LET out == IF removed = NULL_ENTITY
                                            THEN [result |-> "ok", pools |-> m_componentPools]
                                            ELSE RemoveOutcome(m_componentBitPosition,
                                                     m_componentPools, walk.Main,
                                                     SustainedOf(walk.Main), removed)
                                 IN  /\ m_componentPools' = out.pools
                                     /\ last' = [op |-> "Visit", Main |-> walk.Main,
                                                 id |-> id, value |-> value,
                                                 removed |-> removed,
                                                 result |-> out.result]
                                     /\ walk' = [walk EXCEPT
                                            !.visited = Append(@, <<id, value>>),
                                            !.moved = @ \/ (/\ out.result = "ok"
                                                            /\ removed # NULL_ENTITY
                                                            /\ Len(pool.m_dense) - 1 > walk.i),
                                            !.i = NextIndex(walk.i, id, removed)]
    /\ UNCHANGED <<m_availableEntities, m_entityNames, m_componentBitPosition,
                   m_maxEntityID, live>>

\* ECS::ForEach returns.
ForEachReturn ==
    /\ walk.status = "done"
    /\ walk' = Idle
    /\ last' = [op |-> "ForEachReturn", result |-> "ok"]
    /\ UNCHANGED <<m_availableEntities, m_entityNames, m_componentPools,
                   m_componentBitPosition, m_maxEntityID, live>>

\* ----------------------------------------------------------- specifications
DoCreateEntity == \E name \in Names : CreateEntity(name)
DoDeleteEntity == \E id \in AnyIds : DeleteEntity(id)
DoRegisterComponent == \E T \in Types, Cs \in SUBSET Types : RegisterComponent(T, Cs)
DoRegisterFacade ==
    \E T \in FacadeTypes, Cs \in SUBSET FacadeTypes : RegisterComponent(T, Cs)
DoAdd == \E T \in FacadeTypes, Rs \in SUBSET FacadeTypes, id \in AnyIds, v \in Values :
             Add(T, Rs, id, v)
DoRemove == \E T \in FacadeTypes, Ss \in SUBSET FacadeTypes, id \in AnyIds :
                Remove(T, Ss, id)
DoRegisterPool == \E T \in PoolTypes : RegisterComponent(T, {})
DoPoolSet == \E T \in PoolTypes, id \in PoolIds, v \in Values : PoolSet(T, id, v)
DoPoolDelete == \E T \in PoolTypes, id \in PoolIds : PoolDelete(T, id)
DoPoolClear == \E T \in PoolTypes : PoolClear(T)

\* The facade: registration, entity creation, components.  DeleteEntity only
\* moves ids to the free list, which Add and Remove never read.
DoCreateUnnamed == CreateEntity("")

Next ==
    \/ DoCreateUnnamed
    \/ DoRegisterFacade
    \/ DoAdd
    \/ DoRemove

Spec == Init /\ [][Next]_vars

\* The entity allocator alone.
NextAlloc ==
    \/ DoCreateEntity
    \/ DoDeleteEntity

SpecAlloc == Init /\ [][NextAlloc]_vars

\* Entities with components, created, deleted and recycled.
DoAddPlain == \E T \in EntityTypes, id \in AnyIds, v \in Values : Add(T, {}, id, v)

NextEntity ==
    \/ DoCreateUnnamed
    \/ DoDeleteEntity
    \/ DoAddPlain

SpecEntity == Init /\ [][NextEntity]_vars

\* The registry alone, with more types than it has room for.
NextReg ==
    \/ DoRegisterComponent

SpecReg == Init /\ [][NextReg]_vars

\* Sparse sets used directly through GetComponentPool.
NextPool ==
    \/ DoRegisterPool
    \/ DoPoolSet
    \/ DoPoolDelete
    \/ DoPoolClear

SpecPool == Init /\ [][NextPool]_vars

\* Components added and removed without declared dependencies, and observed.
DoAddAny == \E T \in Types, id \in AnyIds, v \in Values : Add(T, {}, id, v)
DoAddFacade == \E T \in FacadeTypes, id \in AnyIds, v \in Values : Add(T, {}, id, v)
DoRemoveFacade == \E T \in FacadeTypes, id \in AnyIds : Remove(T, {}, id)
DoRemovePlain == \E T \in EntityTypes, id \in AnyIds : Remove(T, {}, id)
DoHas == \E T \in Types, id \in AnyIds : HasCall(T, id)
DoHasAll == \E Ts \in TypePacks, id \in AnyIds : HasAllCall(Ts, id)
DoGet == \E T \in FacadeTypes, id \in AnyIds : GetCall(T, id)
DoGetPlain == \E T \in EntityTypes, id \in AnyIds : GetCall(T, id)
DoGetEntityName == \E id \in AnyIds : GetEntityNameCall(id)
DoGetRef == \E T \in Types, id \in AnyIds : GetRefCall(T, id)
DoForEachBegin ==
    \E Main \in FacadeTypes, Siblings \in SUBSET FacadeTypes, cb \in Callbacks :
        ForEachBegin(Main, Siblings \ {Main}, cb)

\* Presence queries and unchecked references.
NextQuery ==
    \/ DoCreateUnnamed
    \/ DoAddFacade
    \/ DoHas
    \/ DoHasAll
    \/ DoGetRef

SpecQuery == Init /\ [][NextQuery]_vars

\* Everything that validates the entity id it is given.
NextChecked ==
    \/ DoCreateEntity
    \/ DoDeleteEntity
    \/ DoAddPlain
    \/ DoRemovePlain
    \/ DoGetPlain
    \/ DoGetEntityName

SpecChecked == Init /\ [][NextChecked]_vars

\* Add, Get and Remove of components.
NextPresence ==
    \/ DoCreateUnnamed
    \/ DoAddFacade
    \/ DoRemoveFacade
    \/ DoGet

SpecPresence == Init /\ [][NextPresence]_vars

\* Registration, explicit and through the first Add of a type.
NextAuto ==
    \/ DoRegisterComponent
    \/ DoCreateUnnamed
    \/ DoAddAny

SpecAuto == Init /\ [][NextAuto]_vars

\* ForEach over entities with components.
NextWalk ==
    \/ DoCreateUnnamed
    \/ DoAddFacade
    \/ DoGetRef
    \/ DoForEachBegin
    \/ ForEachStep
    \/ ForEachReturn

SpecWalk == Init /\ [][NextWalk]_vars


\* --------------------------------------------------------------- properties

\* C1: in every pool the dense array and the dense-to-entity array have the
\* same length, the sparse entry of the entity owning dense slot i is i, and
\* every non-tombstone sparse entry of an entity is a slot owned by it.
C1_DenseSparseConsistent ==
    \A pool \in Pools :
        /\ Len(pool.m_dense) = Len(pool.m_denseToEntity)
        /\ \A i \in 0..(Len(pool.m_denseToEntity) - 1) :
               GetDenseIndex(pool, GetEntity(pool, i)) = i
        /\ \A id \in AllIds :
               GetDenseIndex(pool, id) # tombstone =>
                   /\ GetDenseIndex(pool, id) < Len(pool.m_denseToEntity)
                   /\ GetEntity(pool, GetDenseIndex(pool, id)) = id

\* A Delete has moved the last element into a vacated slot of a pool that
\* spans two sparse pages.
C1_Witness ==
    /\ last.op = "Delete" /\ last.result = "ok"
    /\ \E pool \in Pools :
           /\ Len(pool.m_sparsePages) = 2
           /\ Len(pool.m_dense) >= 2
           /\ \E i \in 1..(Len(pool.m_dense) - 1) :
                  pool.m_denseToEntity[i] > pool.m_denseToEntity[i + 1]

\* C2: no id is live twice, no id is both live and in the free pool, and no
\* id is twice in the free pool.
C2_IdsUnique ==
    /\ \A e \in EntityIds : live[e] <= 1
    /\ \A i \in 1..Len(m_availableEntities) : live[m_availableEntities[i]] = 0
    /\ \A i, j \in 1..Len(m_availableEntities) :
           m_availableEntities[i] = m_availableEntities[j] => i = j

\* C3: an entity that holds T holds every type of T's required mask.
C3_RequiredHeld ==
    \A e \in EntityIds : \A T \in Registered :
        Has(T, e) => \A R \in RequiredOf(T) : Has(R, e)

\* A Remove has succeeded and some entity holds a type that requires another.
C3_Witness ==
    /\ last.op = "Remove" /\ last.result = "ok"
    /\ \E e \in EntityIds : \E T \in Registered :
           Has(T, e) /\ RequiredOf(T) # {}

\* C4: Remove<T>(e) with the sustained list declared as registered is fatal
\* while e holds a type of T's sustained mask, and succeeds (T is gone from
\* e) when e holds T and none of them.
C4_RemoveOrdering ==
    [][(/\ last'.op = "Remove"
        /\ last'.T \in Registered
        /\ last'.decl = SustainedOf(last'.T))
       => /\ (\E S \in SustainedOf(last'.T) : Has(S, last'.id))
                 => last'.result = "fatal"
          /\ (Has(last'.T, last'.id) /\ \A S \in SustainedOf(last'.T) : ~Has(S, last'.id))
                 => (last'.result = "ok" /\ ~HasNext(last'.T, last'.id))]_vars

\* Remove<T>(e), rightly declared, has failed on an entity that holds T and
\* a type that requires T.
C4_Witness ==
    /\ last.op = "Remove" /\ last.result = "fatal"
    /\ last.T \in Registered
    /\ last.decl = SustainedOf(last.T)
    /\ Has(last.T, last.id)
    /\ \E S \in SustainedOf(last.T) : Has(S, last.id)

\* C5: Add<T>(e, v) on a valid entity without T, with the required list
\* declared as registered (empty for a type registered by this very call), is
\* fatal if e lacks a required type and otherwise succeeds with T present.
C5_AddDependency ==
    [][(/\ last'.op = "Add"
        /\ ValidEntity(last'.id)
        /\ ~Has(last'.T, last'.id)
        /\ \/ last'.T \in Registered /\ last'.decl = RequiredOf(last'.T)
           \/ /\ last'.T \notin Registered
              /\ Len(m_componentPools) < MAX_COMPONENTS
              /\ last'.decl = {})
       => IF \E R \in last'.decl : ~Has(R, last'.id)
          THEN last'.result = "fatal"
          ELSE /\ last'.result = "ok"
               /\ HasNext(last'.T, last'.id)
               /\ GetNext(last'.T, last'.id) = last'.value]_vars

\* Add<T>(e, v) has succeeded for a type T that requires another type.
C5_Witness ==
    /\ last.op = "Add" /\ last.result = "ok"
    /\ last.decl # {}
    /\ Has(last.T, last.id)

\* C6: an Add whose declared list differs from T's required mask, and a
\* Remove whose declared list differs from T's sustained mask, is fatal.
C6_ExactMask ==
    [][/\ (/\ last'.op = "Add"
           /\ \/ last'.T \notin DOMAIN m_componentBitPosition'
              \/ last'.decl # TypesOf(m_componentBitPosition',
                                      m_componentBitPosition'[last'.T].m_requiredComponents))
          => last'.result = "fatal"
       /\ (/\ last'.op = "Remove"
           /\ \/ last'.T \notin Registered
              \/ last'.decl # SustainedOf(last'.T))
          => last'.result = "fatal"]_vars

\* An Add has failed whose only fault is a declared list that is a strict
\* superset of the required mask.
C6_Witness ==
    /\ last.op = "Add" /\ last.result = "fatal"
    /\ ValidEntity(last.id)
    /\ last.T \in Registered
    /\ ~Has(last.T, last.id)
    /\ last.decl \subseteq Registered
    /\ RequiredOf(last.T) \subseteq last.decl
    /\ RequiredOf(last.T) # last.decl
    /\ \A R \in RequiredOf(last.T) : Has(R, last.id)

\* C7: after a successful Remove<T>(e), e has no T, and every other entity
\* that held T still holds it with the same value.
C7_SwapRemove ==
    [][(last'.op = "Remove" /\ last'.result = "ok")
       => /\ ~HasNext(last'.T, last'.id)
          /\ \A e2 \in EntityIds \ {last'.id} :
                 Has(last'.T, e2) =>
                     /\ HasNext(last'.T, e2)
                     /\ GetNext(last'.T, e2) = Get(last'.T, e2)]_vars

\* A Remove has succeeded and another entity's component now lies in the
\* slot it vacated.
C7_Witness ==
    /\ last.op = "Remove" /\ last.result = "ok"
    /\ \E e2 \in EntityIds \ {last.id} :
           /\ Has(last.T, e2)
           /\ GetDenseIndex(PoolOf(m_componentBitPosition, m_componentPools, last.T), e2)
                  = last.index

\* C8: a successful Add<T>(e, v) makes Get<T>(e) equal v, and Get<T>(e)
\* keeps its value over every call other than a successful Add<T> or
\* Remove<T> on e.
C8_RoundTrip ==
    [][/\ (last'.op = "Add" /\ last'.result = "ok")
          => (HasNext(last'.T, last'.id) /\ GetNext(last'.T, last'.id) = last'.value)
       /\ \A T \in Registered : \A e \in EntityIds :
              (/\ Has(T, e)
               /\ ~(/\ last'.op \in {"Add", "Remove"}
                    /\ last'.result = "ok"
                    /\ last'.T = T
                    /\ last'.id = e))
              => (HasNext(T, e) /\ GetNext(T, e) = Get(T, e))]_vars

\* An Add has stored a value for one entity in a pool where another entity
\* holds a different value in an earlier slot.
C8_Witness ==
    /\ last.op = "Add" /\ last.result = "ok"
    /\ \E e2 \in EntityIds \ {last.id} :
           /\ Has(last.T, e2)
           /\ Get(last.T, e2) # last.value
           /\ GetDenseIndex(PoolOf(m_componentBitPosition, m_componentPools, last.T), e2)
                  < GetDenseIndex(PoolOf(m_componentBitPosition, m_componentPools, last.T),
                                  last.id)

C10_FreeIdsHaveNoComponents ==
    \A i \in 1..Len(m_availableEntities) : \A T \in Registered :
        ~Has(T, m_availableEntities[i])

\* C13: CreateEntity pops the free list when it is not empty; otherwise it
\* returns the high-water mark (0 at construction, so the number of fresh ids
\* issued so far) and increments it; it fails, changing nothing, exactly when
\* the free list is empty and the mark is MAX_ENTITIES, which without any
\* DeleteEntity is the call after MAX_ENTITIES successful ones; every id
\* issued is below MAX_ENTITIES.
C13_CreateEntity ==
    /\ [](m_maxEntityID <= MAX_ENTITIES)
    /\ [][last'.op = "CreateEntity" =>
            LET n == Len(m_availableEntities)
            IN  /\ (last'.result = "fatal") <=> (n = 0 /\ m_maxEntityID = MAX_ENTITIES)
                /\ last'.result = "fatal" =>
                       UNCHANGED <<m_availableEntities, m_maxEntityID, m_entityNames>>
                /\ last'.result = "ok" =>
                       /\ last'.ret < MAX_ENTITIES
                       /\ IF n > 0
                          THEN /\ last'.ret = m_availableEntities[n]
                               /\ m_availableEntities' = SubSeq(m_availableEntities, 1, n - 1)
                               /\ m_maxEntityID' = m_maxEntityID
                          ELSE /\ last'.ret = m_maxEntityID
                               /\ m_maxEntityID' = m_maxEntityID + 1
                               /\ m_availableEntities' = m_availableEntities]_vars

\* CreateEntity has failed with every id issued and live, the free list empty.
C13_Witness ==
    /\ last.op = "CreateEntity" /\ last.result = "fatal"
    /\ Len(m_availableEntities) = 0
    /\ m_maxEntityID = MAX_ENTITIES
    /\ \A e \in EntityIds : live[e] = 1

\* C15: Set on an entity that already has an entry overwrites the value in
\* place: the entity keeps its dense index, the dense array keeps its length,
\* every other entity keeps its dense index and its value, and every dense
\* slot keeps its owner.
C15_SetOverwrites ==
    [][(last'.op = "Set" /\ last'.result = "ok" /\ last'.had) =>
          LET before == PoolOf(m_componentBitPosition, m_componentPools, last'.T)
              after == PoolOf(m_componentBitPosition', m_componentPools', last'.T)
          IN  /\ GetDenseIndex(after, last'.id) = GetDenseIndex(before, last'.id)
              /\ PoolGet(after, last'.id) = last'.value
              /\ Len(after.m_dense) = Len(before.m_dense)
              /\ after.m_denseToEntity = before.m_denseToEntity
              /\ \A o \in AllIds \ {last'.id} :
                     /\ GetDenseIndex(after, o) = GetDenseIndex(before, o)
                     /\ PoolHas(before, o) => PoolGet(after, o) = PoolGet(before, o)]_vars

\* Set has replaced the value of an entity that is not in the first dense slot
\* of a pool with other entries.
C15_Witness ==
    /\ last.op = "Set" /\ last.result = "ok" /\ last.had
    /\ LET pool == PoolOf(m_componentBitPosition, m_componentPools, last.T)
       IN  /\ GetDenseIndex(pool, last.id) > 0
           /\ Len(pool.m_dense) >= 3

\* C16: every registered type has a bit position below MAX_COMPONENTS, no two
\* types share one, there is exactly one pool per registered type, the type's
\* at its bit position, and a bit position never changes; registering a type
\* that is registered, or any type when MAX_COMPONENTS types are registered,
\* fails, through RegisterComponent and through the first Add of a type.
C16_BitPositions ==
    /\ [](/\ \A T \in Registered :
                /\ m_componentBitPosition[T].m_bitPosition \in 0..(MAX_COMPONENTS - 1)
                /\ m_componentBitPosition[T].m_bitPosition < Len(m_componentPools)
          /\ \A T, U \in Registered :
                m_componentBitPosition[T].m_bitPosition =
                    m_componentBitPosition[U].m_bitPosition => T = U
          /\ Len(m_componentPools) = Cardinality(Registered))
    /\ [][/\ \A T \in Registered :
                /\ T \in DOMAIN m_componentBitPosition'
                /\ m_componentBitPosition'[T].m_bitPosition =
                       m_componentBitPosition[T].m_bitPosition
          /\ (/\ last'.op = "RegisterComponent"
              /\ (last'.T \in Registered \/ Cardinality(Registered) = MAX_COMPONENTS)) =>
                 /\ last'.result = "fatal"
                 /\ UNCHANGED <<m_componentBitPosition, m_componentPools>>
          /\ (/\ last'.op = "Add"
              /\ last'.T \notin Registered
              /\ Cardinality(Registered) = MAX_COMPONENTS) =>
                 /\ last'.result = "fatal"
                 /\ UNCHANGED <<m_componentBitPosition, m_componentPools>>]_vars

\* The first Add of a type, to a valid entity, has failed because the
\* registry is full.
C16_Witness ==
    /\ last.op = "Add" /\ last.result = "fatal"
    /\ ValidEntity(last.id)
    /\ last.T \notin Registered
    /\ Cardinality(Registered) = MAX_COMPONENTS

\* C17: for registered types X and T, T's bit is set in the sustained mask
\* of X exactly when X's bit is set in the required mask of T, and no mask
\* has a bit that belongs to no registered type.
C17_SustainedInverse ==
    /\ \A X, T \in Registered :
           (m_componentBitPosition[T].m_bitPosition
                \in m_componentBitPosition[X].m_isRequiredInComponents)
           <=> (m_componentBitPosition[X].m_bitPosition
                    \in m_componentBitPosition[T].m_requiredComponents)
    /\ \A T \in Registered :
           m_componentBitPosition[T].m_requiredComponents
               \cup m_componentBitPosition[T].m_isRequiredInComponents
             \subseteq {m_componentBitPosition[U].m_bitPosition : U \in Registered}

\* Two types are registered, one declared with the other as required and
\* the other with nothing.
C17_Witness ==
    /\ last.op = "RegisterComponent" /\ last.result = "ok"
    /\ \E X, T \in Registered :
           /\ X \in RequiredOf(T)
           /\ RequiredOf(X) = {}
           /\ SustainedOf(T) = {}

\* C18: Add, Get, Remove, DeleteEntity and GetEntityName called with
\* NULL_ENTITY or with an id at or above the high-water mark fail, and leave
\* the allocator, the names, the registry and the pools as they were.
C18_InvalidEntityFatal ==
    [][(/\ last'.op \in {"Add", "Get", "Remove", "DeleteEntity", "GetEntityName"}
        /\ (last'.id = NULL_ENTITY \/ last'.id >= m_maxEntityID)) =>
           /\ last'.result = "fatal"
           /\ UNCHANGED <<m_availableEntities, m_entityNames, m_componentPools,
                          m_componentBitPosition, m_maxEntityID>>]_vars

\* A call has failed on the id just above the issued ones, while some entity
\* exists and holds a component.
C18_Witness ==
    /\ last.op \in {"Add", "Get", "Remove", "DeleteEntity", "GetEntityName"}
    /\ last.result = "fatal"
    /\ last.id = m_maxEntityID
    /\ \E e \in EntityIds, T \in Registered : Has(T, e)

\* C19: whether an entity holds a type changes only by a successful Add of
\* that type to that entity, from absent to present, and by a successful
\* Remove of it, from present to absent; Add fails when the entity holds the
\* type, Get and Remove fail when it does not; no call changes the presence
\* of any other (type, entity) pair.
C19_Presence ==
    [][/\ \A T \in Types, e \in EntityIds :
              (Has(T, e) # HasNext(T, e)) =>
                  /\ last'.result = "ok" /\ last'.T = T /\ last'.id = e
                  /\ \/ last'.op = "Add" /\ ~Has(T, e)
                     \/ last'.op = "Remove" /\ Has(T, e)
       /\ (last'.op = "Add" /\ last'.result = "ok") =>
              ~Has(last'.T, last'.id) /\ HasNext(last'.T, last'.id)
       /\ (last'.op = "Remove" /\ last'.result = "ok") =>
              Has(last'.T, last'.id) /\ ~HasNext(last'.T, last'.id)
       /\ (last'.op = "Add" /\ Has(last'.T, last'.id)) => last'.result = "fatal"
       /\ (last'.op \in {"Get", "Remove"} /\ ~Has(last'.T, last'.id)) =>
              last'.result = "fatal"
       /\ (last'.op = "Get" /\ last'.result = "ok") =>
              /\ Has(last'.T, last'.id)
              /\ last'.ret = Get(last'.T, last'.id)]_vars

\* A Remove has succeeded on an entity that holds another type, while another
\* entity holds the removed type.
C19_Witness ==
    /\ last.op = "Remove" /\ last.result = "ok"
    /\ \E o \in EntityIds \ {last.id} : Has(last.T, o)
    /\ \E U \in Types \ {last.T} : Has(U, last.id)

\* C12 as stated: Has and HasAll never fail, for any id and any type,
\* registered or not, and change nothing.
C12_NeverFatal ==
    [][last'.op \in {"Has", "HasAll"} =>
           /\ last'.result = "ok"
           /\ UNCHANGED <<m_availableEntities, m_entityNames, m_componentPools,
                          m_componentBitPosition, m_maxEntityID>>]_vars

\* C12: Has and HasAll change nothing and, for any id, issued or not or the
\* sentinel, return whether the entity holds the type (every type of the
\* pack) as long as the types are registered.  Has<T> fails exactly when T is
\* not registered; HasAll fails exactly when, reading the pack from the left,
\* it reaches a type that is not registered before a type the entity lacks.
C12_HasRegistered ==
    [][/\ last'.op \in {"Has", "HasAll"} =>
              UNCHANGED <<m_availableEntities, m_entityNames, m_componentPools,
                          m_componentBitPosition, m_maxEntityID>>
       /\ last'.op = "Has" =>
              /\ (last'.result = "fatal") <=> (last'.T \notin Registered)
              /\ last'.result = "ok" => (last'.ret <=> Has(last'.T, last'.id))
       /\ last'.op = "HasAll" =>
              LET Ts == last'.Ts
              IN  /\ (last'.result = "fatal") <=>
                         \E k \in 1..Len(Ts) :
                             /\ Ts[k] \notin Registered
                             /\ \A j \in 1..(k - 1) : Has(Ts[j], last'.id)
                  /\ last'.result = "ok" =>
                         (last'.ret <=> \A k \in 1..Len(Ts) : Has(Ts[k], last'.id))]_vars

\* HasAll has answered false for a pack that names a type that is not
\* registered, behind a registered type the entity lacks.
C12_Witness ==
    /\ last.op = "HasAll" /\ last.result = "ok" /\ ~last.ret
    /\ Len(last.Ts) = 2
    /\ last.Ts[1] \in Registered
    /\ last.Ts[2] \notin Registered
    /\ \E e \in EntityIds : Has(last.Ts[1], e)

\* The entities a ForEach has visited
VisitedIds == {walk.visited[k][1] : k \in 1..Len(walk.visited)}

\* C11 as stated: GetRef on an entity without an entry in the pool, and a
\* ForEach visit of an entity that lacks a sibling, end the process (by an
\* assertion or a crash).
C11_AbsentIsFatal ==
    [][/\ (/\ last'.op = "GetRef"
           /\ ~Has(last'.T, last'.id)) =>
              last'.result \in {"fatal", "crash"}
       /\ (/\ last'.op = "Visit"
           /\ \E S \in walk.Siblings : ~Has(S, last'.id)) =>
              last'.result \in {"fatal", "crash"}]_vars

\* C14: a ForEach<Main> whose callback neither adds nor removes has, at every
\* moment, visited the first i slots of Main's dense array in slot order,
\* passing each slot's owner and value; when it ends it has visited exactly
\* the entities that hold Main, each once, with the value Get returns.  A
\* successful Add appends to the dense order of its type and nothing but a
\* removal changes a dense order otherwise, so without removals the order is
\* the order of the Adds.
C14_ForEachVisitsAll ==
    /\ []((walk.status \in {"running", "done"} /\ walk.cb = "none") =>
             LET order == DenseOrder(m_componentBitPosition, m_componentPools, walk.Main)
             IN  /\ walk.i <= Len(order)
                 /\ walk.visited = SubSeq(order, 1, walk.i)
                 /\ walk.status = "done" =>
                        /\ walk.visited = order
                        /\ VisitedIds = Holders(walk.Main)
                        /\ \A j, k \in 1..Len(walk.visited) :
                               walk.visited[j][1] = walk.visited[k][1] => j = k
                        /\ \A k \in 1..Len(walk.visited) :
                               walk.visited[k][2] = Get(walk.Main, walk.visited[k][1]))
    /\ [][\A T \in Types :
              LET before == DenseOrder(m_componentBitPosition, m_componentPools, T)
                  after == DenseOrder(m_componentBitPosition', m_componentPools', T)
              IN  IF last'.op = "Add" /\ last'.result = "ok" /\ last'.T = T
                  THEN after = Append(before, <<last'.id, last'.value>>)
                  ELSE (last'.op = "Visit" /\ last'.removed # NULL_ENTITY)
                           \/ after = before]_vars

\* A ForEach with such a callback has ended after visiting two entities, the
\* one with the larger id first.
C14_Witness ==
    /\ walk.status = "done" /\ walk.cb = "none"
    /\ Len(walk.visited) = 2
    /\ walk.visited[1][1] > walk.visited[2][1]
    /\ walk.visited[1][2] # walk.visited[2][2]

\* C20: a ForEach<Main> whose callback removes the Main component of the
\* visited entity or of one visited before visits no entity twice and none
\* that did not hold Main at the start; the entities that held Main at the
\* start and were never visited still hold it at the end, and there is such
\* an entity exactly when a removal happened while the last dense element
\* lay beyond the current index (Delete moved it to a slot at or before it).
C20_RemovalSkips ==
    (walk.status = "done" /\ walk.cb = "remove") =>
        LET skipped == walk.start \ VisitedIds
        IN  /\ VisitedIds \subseteq walk.start
            /\ \A j, k \in 1..Len(walk.visited) :
                   walk.visited[j][1] = walk.visited[k][1] => j = k
            /\ \A e \in skipped : Has(walk.Main, e)
            /\ (skipped # {}) <=> walk.moved

\* A ForEach has ended without visiting an entity that held Main at the start
\* and holds it still.
C20_Witness ==
    /\ walk.status = "done" /\ walk.cb = "remove"
    /\ \E e \in walk.start : e \notin VisitedIds /\ Has(walk.Main, e)

\* C21: every bit of the required mask of a registered type T is the bit
\* position of a registered type and is smaller than T's own, so no type
\* requires itself, directly or through others; RegisterComponent fails,
\* changing nothing, when the list names T itself or a type not registered;
\* and as long as the process has not aborted, every entity can be left
\* without components by some sequence of successful Remove calls.
C21_RequiresAcyclic ==
    /\ [](\A T \in Registered :
              /\ \A b \in m_componentBitPosition[T].m_requiredComponents :
                     /\ b < m_componentBitPosition[T].m_bitPosition
                     /\ \E R \in Registered : m_componentBitPosition[R].m_bitPosition = b
              /\ T \notin RequiredWithin(m_componentBitPosition, T, MAX_COMPONENTS))
    /\ [](~Aborted =>
              \A e \in EntityIds :
                  Strippable(m_componentBitPosition, m_componentPools, e))
    /\ [][(/\ last'.op = "RegisterComponent"
           /\ (last'.T \in last'.decl \/ \E c \in last'.decl : c \notin Registered)) =>
              /\ last'.result = "fatal"
              /\ UNCHANGED <<m_componentBitPosition, m_componentPools>>]_vars

\* An entity holds a type and the type it requires, so that only one order of
\* Remove calls strips it, and the last call was a successful one.
C21_Witness ==
    /\ last.result = "ok"
    /\ \E e \in EntityIds : \E T, R \in Registered :
           /\ R \in RequiredOf(T)
           /\ Has(T, e) /\ Has(R, e)
           /\ RemoveOutcome(m_componentBitPosition, m_componentPools,
                            R, SustainedOf(R), e).result = "fatal"

====
